---- MODULE Spec2Model ----
(***************************************************************************)
(* Task tracker (simple_backend/src/task_tracker/main.py): four FastAPI    *)
(* handlers doing read-entire-list / mutate / write-entire-list against a  *)
(* remote JSON bin, with best-effort AI enrichment of the title on create. *)
(*                                                                         *)
(* Every network call (`requests.request`) is one atomic step; a worker    *)
(* runs a handler from one network call to the next.  The remote bin       *)
(* applies a PUT exactly when the PUT is answered with success, and a      *)
(* successful GET answers with the record currently stored.                *)
(***************************************************************************)
EXTENDS Integers, Sequences, FiniteSets, TLC

\* ------------------------------------------------------------------ bounds
NumProcs == 2      \* workers serving requests
MaxReq   == 4      \* requests received in a behaviour that starts from the empty bin
MaxConcReq == 2    \* requests received in a behaviour with concurrent workers
MaxAnyReq == 1     \* requests received in a behaviour that starts from any record
MaxId    == 2      \* path ids / initial ids range over 1..MaxId
MaxInit  == 2      \* longest record the bin holds initially (InitAny)

Procs    == 1..NumProcs
\* the {title, status} bodies of TaskCreate / TaskUpdate
Bodies   == {[title |-> <<"A">>, status |-> "todo"], [title |-> <<"B">>, status |-> "done"]}

\* ----------------------------------------------------------- data (Task &c)
Task(id, title, status) == [id |-> id, title |-> title, status |-> status]

TaskCreate(title, status) == [op |-> "create", id |-> 0, title |-> title, status |-> status]

TaskUpdate(task_id, title, status) ==
    [op |-> "update", id |-> task_id, title |-> title, status |-> status]

NoTitle == << >>

Requests ==
    {[op |-> "list", id |-> 0, title |-> NoTitle, status |-> "-"]}
    \cup {TaskCreate(b.title, b.status) : b \in Bodies}
    \cup {TaskUpdate(i, b.title, b.status) : i \in 1..MaxId, b \in Bodies}
    \cup {[op |-> "delete", id |-> i, title |-> NoTitle, status |-> "-"] : i \in 1..MaxId}

\* HTTP status codes of the responses
OK                 == 200
NotFound           == 404
StorageCorrupt     == 500
ServiceUnavailable == 503

\* ------------------------------------------------------- sequence helpers
Ids(tasks) == [i \in 1..Len(tasks) |-> tasks[i].id]

IdSet(tasks) == {tasks[i].id : i \in 1..Len(tasks)}

RECURSIVE MaxOf(_)
MaxOf(S) == LET x == CHOOSE y \in S : TRUE
            IN  IF S = {x} THEN x
                ELSE LET m == MaxOf(S \ {x}) IN IF x > m THEN x ELSE m

RemoveAt(s, j) == [i \in 1..(Len(s) - 1) |-> IF i < j THEN s[i] ELSE s[i + 1]]

\* str.strip(): drop leading and trailing whitespace
RECURSIVE LStrip(_)
LStrip(s) == IF s # << >> /\ Head(s) = " " THEN LStrip(Tail(s)) ELSE s

RECURSIVE RStrip(_)
RStrip(s) == IF s # << >> /\ s[Len(s)] = " " THEN RStrip(SubSeq(s, 1, Len(s) - 1)) ELSE s

Strip(s) == RStrip(LStrip(s))

\* ------------------------------------------------ BaseHTTPClient._make_request
\* A reply of the remote side as `requests` sees it:
\*   "transport"  RequestException (connection error, or raise_for_status)
\*   "badjson"    delivered, but the body is not JSON
\*   "json"       delivered, body parsed
\* _make_request turns a RequestException into HTTPException(503).
\* (mutant: the wrong status code for a failed call)
MakeRequestErrorWrongCode(reply) == IF reply.kind = "transport" THEN StorageCorrupt ELSE 0

MakeRequestError(reply) == IF reply.kind = "transport" THEN ServiceUnavailable ELSE 0

\* ---------------------------------------------------------- TaskFileManager
StoreReplies(record) ==
    {[kind |-> "transport"], [kind |-> "badjson"], [kind |-> "json", record |-> record]}

\* (mutant: a failed read is swallowed and gives the empty list, as the AI client
\* gives the empty suggestion)
read_tasks_swallowing(reply) ==
    IF reply.kind = "json" THEN [err |-> 0, tasks |-> reply.record]
                           ELSE [err |-> 0, tasks |-> << >>]

\* read_tasks: [err |-> status code or 0, tasks |-> the parsed list]
read_tasks(reply) ==
    IF MakeRequestError(reply) # 0
      THEN [err |-> MakeRequestError(reply), tasks |-> << >>]
    ELSE IF reply.kind = "badjson"
      THEN [err |-> StorageCorrupt, tasks |-> << >>]
    ELSE [err |-> 0, tasks |-> reply.record]

WriteReplies == {[kind |-> "transport"], [kind |-> "json"]}

\* (mutant: the PUT adds the tasks the record lacks instead of overwriting it)
write_tasks_merging(tasks, reply, record) ==
    IF reply.kind = "transport"
      THEN [err |-> ServiceUnavailable, record |-> record]
      ELSE [err |-> 0,
            record |-> record \o SelectSeq(tasks, LAMBDA t : \A i \in 1..Len(record) : record[i] # t)]

\* (mutant: a failed PUT is logged and swallowed, as the AI client does)
write_tasks_swallowing(tasks, reply, record) ==
    IF reply.kind = "transport"
      THEN [err |-> 0, record |-> record]
      ELSE [err |-> 0, record |-> tasks]

\* write_tasks: the status code raised (0: none) and the record the bin holds after
write_tasks(tasks, reply, record) ==
    IF MakeRequestError(reply) # 0
      THEN [err |-> MakeRequestError(reply), record |-> record]
      ELSE [err |-> 0, record |-> tasks]

\* ------------------------------------------------------- CloudflareAIManager
Texts == {<< >>, <<" ">>, <<"s">>, <<" ", "s", " ">>}

AIReplies ==
    {[kind |-> "transport"], [kind |-> "badjson"]}
    \cup {[kind |-> "json", success |-> s, hasResult |-> r, hasResponse |-> h, response |-> t] :
            s \in BOOLEAN, r \in BOOLEAN, h \in BOOLEAN, t \in {<<" ", "s", " ">>}}
    \cup {[kind |-> "json", success |-> TRUE, hasResult |-> TRUE, hasResponse |-> TRUE,
           response |-> t] : t \in Texts}

\* (mutant: the success flag of the reply is not looked at)
get_solution_ignoring_flag(reply) ==
    IF reply.kind # "json" THEN << >>
    ELSE IF reply.hasResult /\ reply.hasResponse THEN Strip(reply.response)
    ELSE << >>

\* get_solution_for_task: the suggestion, "" on every failure
get_solution_for_task(reply) ==
    IF MakeRequestError(reply) # 0 THEN << >>
    ELSE IF reply.kind = "badjson" THEN << >>
    ELSE IF reply.success /\ reply.hasResult /\ reply.hasResponse
      THEN Strip(reply.response)
      ELSE << >>

Separator == <<"\n\n--- AI Suggested Steps ---\n">>

\* create_task, lines 160-162
EnrichedTitle(title, solution) ==
    IF solution # << >> THEN title \o Separator \o solution ELSE title

\* ------------------------------------------------------------ handler bodies
\* (mutants: max without the increment; min in place of max)
NewIdNoIncrement(tasks) == IF tasks # << >> THEN MaxOf(IdSet(tasks)) ELSE 1

NewIdMin(tasks) == IF tasks # << >> THEN -MaxOf({-x : x \in IdSet(tasks)}) + 1 ELSE 1

\* create_task, line 165
NewId(tasks) == IF tasks # << >> THEN MaxOf(IdSet(tasks)) + 1 ELSE 1

\* (mutants: the loop variable used after a loop that found nothing; the last match)
UpdateIndexLeaking(tasks, task_id) ==
    IF \E i \in 1..Len(tasks) : tasks[i].id = task_id
      THEN CHOOSE i \in 1..Len(tasks) :
             /\ tasks[i].id = task_id
             /\ \A j \in 1..(i - 1) : tasks[j].id # task_id
      ELSE Len(tasks)

UpdateIndexLast(tasks, task_id) ==
    IF \E i \in 1..Len(tasks) : tasks[i].id = task_id
      THEN CHOOSE i \in 1..Len(tasks) :
             /\ tasks[i].id = task_id
             /\ \A j \in (i + 1)..Len(tasks) : tasks[j].id # task_id
      ELSE 0

\* update_task, lines 176-177: the index at which the loop finds task_id (the first
\* task with the id), 0 if the loop runs to its end
UpdateIndex(tasks, task_id) ==
    IF \E i \in 1..Len(tasks) : tasks[i].id = task_id
      THEN CHOOSE i \in 1..Len(tasks) :
             /\ tasks[i].id = task_id
             /\ \A j \in 1..(i - 1) : tasks[j].id # task_id
      ELSE 0

\* (mutant: the default of next() is the last task, not None)
TaskToDeleteDefaultLast(tasks, task_id) ==
    IF \E i \in 1..Len(tasks) : tasks[i].id = task_id
      THEN <<tasks[CHOOSE i \in 1..Len(tasks) :
                     /\ tasks[i].id = task_id
                     /\ \A j \in 1..(i - 1) : tasks[j].id # task_id]>>
    ELSE IF tasks # << >> THEN <<tasks[Len(tasks)]>>
    ELSE << >>

\* (mutant: the generator is searched from the end of the list)
TaskToDeleteLast(tasks, task_id) ==
    IF \E i \in 1..Len(tasks) : tasks[i].id = task_id
      THEN <<tasks[CHOOSE i \in 1..Len(tasks) :
                     /\ tasks[i].id = task_id
                     /\ \A j \in (i + 1)..Len(tasks) : tasks[j].id # task_id]>>
      ELSE << >>

\* delete_task, line 188: next((task for task in tasks if task.id == task_id), None),
\* as a sequence of at most one task (<< >> is None)
TaskToDelete(tasks, task_id) ==
    IF \E i \in 1..Len(tasks) : tasks[i].id = task_id
      THEN <<tasks[CHOOSE i \in 1..Len(tasks) :
                     /\ tasks[i].id = task_id
                     /\ \A j \in 1..(i - 1) : tasks[j].id # task_id]>>
      ELSE << >>

\* (mutant: tasks.pop() in place of tasks.remove(x))
ListPop(tasks, x) == SubSeq(tasks, 1, Len(tasks) - 1)

\* list.remove(x), line 191: drops the first element equal to x
ListRemove(tasks, x) ==
    LET j == CHOOSE i \in 1..Len(tasks) :
               /\ tasks[i] = x
               /\ \A k \in 1..(i - 1) : tasks[k] # x
    IN  RemoveAt(tasks, j)

\* ------------------------------------------------------------------- state
VARIABLES
    store,    \* the record held by the remote bin: a sequence of Tasks
    pc,       \* pc[p]: "idle", "ai", "read", "write" or "done"
    req,      \* req[p]: the request worker p is serving
    local,    \* local[p]: the handler's local variables
    calls,    \* calls[p]: the network calls of the request so far, with outcomes
    resp,     \* resp[p]: the response of the last request p completed
    recent,   \* the last two completed requests, oldest first
    created,  \* the ids returned by the successful Creates so far, in order
    received, \* number of requests received so far
    budget    \* number of requests the behaviour may receive (bounds it)

vars == <<store, pc, req, local, calls, resp, recent, created, received, budget>>

NoReq   == [op |-> "none", id |-> 0, title |-> NoTitle, status |-> "-"]
NoLocal == [title |-> NoTitle, read |-> << >>, tasks |-> << >>, ret |-> << >>]
NoResp  == [code |-> 0, body |-> << >>]

InFlight == {p \in Procs : pc[p] \in {"ai", "read", "write"}}

InitWorkers ==
    /\ pc    = [p \in Procs |-> "idle"]
    /\ req   = [p \in Procs |-> NoReq]
    /\ local = [p \in Procs |-> NoLocal]
    /\ calls = [p \in Procs |-> << >>]
    /\ resp  = [p \in Procs |-> NoResp]
    /\ recent   = << >>
    /\ created  = << >>
    /\ received = 0

\* the bin starts out holding the empty list
Init == store = << >> /\ budget = MaxConcReq /\ InitWorkers

\* the same, for requests served one after another
InitSeq == store = << >> /\ budget = MaxReq /\ InitWorkers

\* the bin may hold any record when the service starts (it is filled from outside)
InitialTasks == {Task(i, b.title, b.status) : i \in 1..MaxId, b \in Bodies}

InitialRecords == UNION {[1..n -> InitialTasks] : n \in 0..MaxInit}

InitAny == store \in InitialRecords /\ budget = MaxAnyReq /\ InitWorkers

\* the bin holds any record with pairwise distinct ids; workers are concurrent
DistinctRecords ==
    {r \in InitialRecords : \A i, j \in 1..Len(r) : i # j => r[i].id # r[j].id}

InitDistinct == store \in DistinctRecords /\ budget = MaxConcReq /\ InitWorkers

\* ------------------------------------------------------------------ steps
CallOutcome(reply) == IF reply.kind = "json" THEN "ok" ELSE reply.kind

\* the path get_solution_for_task takes: the except clause of line 118
\* ("raised"), the else branch of line 115 ("unsuccessful"), the return of line 114
AIOutcome(reply) ==
    IF reply.kind # "json" THEN "raised"
    ELSE IF ~(reply.success /\ reply.hasResult /\ reply.hasResponse) THEN "unsuccessful"
    ELSE "ok"

\* (mutant: a failed call is made a second time)
CalledWithRetry(p, call, out) ==
    calls' = [calls EXCEPT ![p] =
                IF out \in {"transport", "badjson", "raised"}
                  THEN @ \o <<[call |-> call, out |-> out], [call |-> call, out |-> out]>>
                  ELSE Append(@, [call |-> call, out |-> out])]

Called(p, call, out) == calls' = [calls EXCEPT ![p] = Append(@, [call |-> call, out |-> out])]

LastTwo(seq) == IF Len(seq) > 2 THEN Tail(seq) ELSE seq

\* the response leaves the handler (a return, or an HTTPException reaching FastAPI)
Respond(p, code, body) ==
    /\ pc'   = [pc EXCEPT ![p] = "done"]
    /\ resp' = [resp EXCEPT ![p] = [code |-> code, body |-> body]]
    /\ recent'  = LastTwo(Append(recent, [op |-> req[p].op, id |-> req[p].id, code |-> code]))
    /\ created' = IF req[p].op = "create" /\ code = OK
                    THEN Append(created, body[1].id)
                    ELSE created

\* a request reaches worker p: the free worker of least number takes it (workers
\* are interchangeable, they share nothing but the module-level clients)
Free == {p \in Procs : pc[p] \in {"idle", "done"}}

Receive(p) ==
    /\ p \in Free /\ \A q \in Free : p <= q
    /\ received < budget
    /\ received' = received + 1
    /\ \E r \in Requests :
         /\ req' = [req EXCEPT ![p] = r]
         /\ pc'  = [pc EXCEPT ![p] = IF r.op = "create" THEN "ai" ELSE "read"]
    /\ local' = [local EXCEPT ![p] = NoLocal]
    /\ calls' = [calls EXCEPT ![p] = << >>]
    /\ resp'  = [resp EXCEPT ![p] = NoResp]
    /\ UNCHANGED <<store, recent, created, budget>>

\* get_tasks, lines 149-152
get_tasks(p) ==
    /\ pc[p] = "read" /\ req[p].op = "list"
    /\ \E reply \in StoreReplies(store) :
         LET r == read_tasks(reply) IN
         /\ Called(p, "read", CallOutcome(reply))
         /\ IF r.err # 0 THEN Respond(p, r.err, << >>) ELSE Respond(p, OK, r.tasks)
    /\ UNCHANGED <<store, req, local, received, budget>>

\* create_task, lines 158-162: the AI call and the enrichment of the title
create_task_ai(p) ==
    /\ pc[p] = "ai" /\ req[p].op = "create"
    /\ \E reply \in AIReplies :
         /\ Called(p, "ai", AIOutcome(reply))
         /\ local' = [local EXCEPT ![p].title =
                        EnrichedTitle(req[p].title, get_solution_for_task(reply))]
    /\ pc' = [pc EXCEPT ![p] = "read"]
    /\ UNCHANGED <<store, req, resp, recent, created, received, budget>>

\* (mutant: the new task gets a fixed status, not the request's)
CreatedTaskDefaultStatus(tasks, title, status) == Task(NewId(tasks), title, "todo")

\* (mutant: the id is the length of the list plus one)
CreatedTaskCounting(tasks, title, status) == Task(Len(tasks) + 1, title, status)

\* create_task, lines 164-167
CreatedTask(tasks, title, status) == Task(NewId(tasks), title, status)

create_task_read(p) ==
    /\ pc[p] = "read" /\ req[p].op = "create"
    /\ \E reply \in StoreReplies(store) :
         LET r        == read_tasks(reply)
             new_task == CreatedTask(r.tasks, local[p].title, req[p].status)
         IN
         /\ Called(p, "read", CallOutcome(reply))
         /\ IF r.err # 0
              THEN Respond(p, r.err, << >>) /\ UNCHANGED local
              ELSE /\ local' = [local EXCEPT ![p].read  = r.tasks,
                                             ![p].tasks = Append(r.tasks, new_task),
                                             ![p].ret   = <<new_task>>]
                   /\ pc' = [pc EXCEPT ![p] = "write"]
                   /\ UNCHANGED <<resp, recent, created>>
    /\ UNCHANGED <<store, req, received, budget>>

\* (mutant: the index of the loop is taken for the id)
UpdatedTasksIndexId(tasks, i, task_id, data) ==
    [tasks EXCEPT ![i] = Task(i, data.title, data.status)]

\* update_task, lines 176-178
UpdatedTasks(tasks, i, task_id, data) ==
    [tasks EXCEPT ![i] = Task(task_id, data.title, data.status)]

update_task_read(p) ==
    /\ pc[p] = "read" /\ req[p].op = "update"
    /\ \E reply \in StoreReplies(store) :
         LET r == read_tasks(reply)
             i == UpdateIndex(r.tasks, req[p].id)
         IN
         /\ Called(p, "read", CallOutcome(reply))
         /\ IF r.err # 0
              THEN Respond(p, r.err, << >>) /\ UNCHANGED local
            ELSE IF i = 0
              THEN /\ Respond(p, NotFound, << >>)
                   /\ local' = [local EXCEPT ![p].read = r.tasks, ![p].tasks = r.tasks]
            ELSE LET tasks == UpdatedTasks(r.tasks, i, req[p].id, req[p]) IN
                   /\ local' = [local EXCEPT ![p].read  = r.tasks,
                                             ![p].tasks = tasks,
                                             ![p].ret   = <<tasks[i]>>]
                   /\ pc' = [pc EXCEPT ![p] = "write"]
                   /\ UNCHANGED <<resp, recent, created>>
    /\ UNCHANGED <<store, req, received, budget>>

delete_task_read(p) ==
    /\ pc[p] = "read" /\ req[p].op = "delete"
    /\ \E reply \in StoreReplies(store) :
         LET r              == read_tasks(reply)
             task_to_delete == TaskToDelete(r.tasks, req[p].id)
         IN
         /\ Called(p, "read", CallOutcome(reply))
         /\ IF r.err # 0
              THEN Respond(p, r.err, << >>) /\ UNCHANGED local
            ELSE IF task_to_delete = << >>
              THEN /\ Respond(p, NotFound, << >>)
                   /\ local' = [local EXCEPT ![p].read = r.tasks, ![p].tasks = r.tasks]
            ELSE   /\ local' = [local EXCEPT ![p].read  = r.tasks,
                                             ![p].tasks = ListRemove(r.tasks, task_to_delete[1])]
                   /\ pc' = [pc EXCEPT ![p] = "write"]
                   /\ UNCHANGED <<resp, recent, created>>
    /\ UNCHANGED <<store, req, received, budget>>

\* the write_tasks call of a handler and its return
WriteAndReturn(p) ==
    \E reply \in WriteReplies :
      LET w == write_tasks(local[p].tasks, reply, store) IN
      /\ Called(p, "write", CallOutcome(reply))
      /\ store' = w.record
      /\ IF w.err # 0 THEN Respond(p, w.err, << >>) ELSE Respond(p, OK, local[p].ret)
      /\ UNCHANGED <<req, local, received, budget>>

\* create_task, lines 168-169
create_task_write(p) == pc[p] = "write" /\ req[p].op = "create" /\ WriteAndReturn(p)

\* update_task, lines 179-180
update_task_write(p) == pc[p] = "write" /\ req[p].op = "update" /\ WriteAndReturn(p)

\* delete_task, lines 192-193
delete_task_write(p) == pc[p] = "write" /\ req[p].op = "delete" /\ WriteAndReturn(p)

Step(p) ==
    \/ get_tasks(p)
    \/ create_task_ai(p)
    \/ create_task_read(p)
    \/ create_task_write(p)
    \/ update_task_read(p)
    \/ update_task_write(p)
    \/ delete_task_read(p)
    \/ delete_task_write(p)

\* requests served concurrently by the workers
Next == \E p \in Procs : Receive(p) \/ Step(p)

Spec == Init /\ [][Next]_vars

\* requests served one after another: a request is received only when none is in flight
ReceiveSeq(p) == InFlight = {} /\ Receive(p)

NextSeq == \E p \in Procs : ReceiveSeq(p) \/ Step(p)

SeqSpec == InitSeq /\ [][NextSeq]_vars

\* requests served concurrently, from any record with distinct ids
DistinctSpec == InitDistinct /\ [][Next]_vars

AnySeqSpec == InitAny /\ [][NextSeq]_vars

\* ================================================================= claims
Range(seq) == {seq[i] : i \in 1..Len(seq)}

Done(p, op) == pc[p] = "done" /\ req[p].op = op

\* the outcome of worker p's call of the given kind, "none" if it made none
OutcomeOf(p, call) ==
    IF \E i \in 1..Len(calls[p]) : calls[p][i].call = call
      THEN calls[p][CHOOSE i \in 1..Len(calls[p]) : calls[p][i].call = call].out
      ELSE "none"

\* requests completed so far
Served == received - Cardinality(InFlight)

\* C1: from the empty bin, when every request served so far was a Create whose
\* storage calls succeeded, the k-th of them returned id k (so the ids returned
\* are strictly increasing and pairwise distinct).
C1_CreateIdsCount ==
    Len(created) = Served => \A k \in 1..Len(created) : created[k] = k

C1_Witness == Served >= 3 /\ Len(created) = Served /\ created[3] = 3

\* C2: from the empty bin, after any requests served one after another (failed
\* ones included), no two tasks of the stored list have the same id.
C2_StoredIdsUnique ==
    \A i, j \in 1..Len(store) : i # j => store[i].id # store[j].id

C2_Witness ==
    /\ Len(store) >= 2
    /\ \E k \in 1..Len(recent) : recent[k].op = "update" /\ recent[k].code = OK
    /\ \E k \in 1..Len(recent) : recent[k].code = ServiceUnavailable

\* C3: an Update whose read succeeded and returned a list without the path id
\* ends with 404, has issued no write, and the stored list is the list it read;
\* an Update only ever reaches its write with an id the list read has.
C3_UpdateUnknownId ==
    \A p \in Procs :
      /\ (Done(p, "update") /\ OutcomeOf(p, "read") = "ok"
            /\ req[p].id \notin IdSet(local[p].read))
         => /\ resp[p].code = NotFound
            /\ OutcomeOf(p, "write") = "none"
            /\ store = local[p].read
      /\ (pc[p] = "write" /\ req[p].op = "update") => req[p].id \in IdSet(local[p].read)

C3_Witness ==
    \E p \in Procs :
      /\ Done(p, "update") /\ resp[p].code = NotFound
      /\ store # << >> /\ store = local[p].read
      /\ req[p].id \notin IdSet(store)

\* C4: a Delete whose read succeeded and returned a list without the path id
\* ends with 404, has issued no write, and the stored list is the list it read;
\* a Delete only ever reaches its write with an id the list read has.
C4_DeleteUnknownId ==
    \A p \in Procs :
      /\ (Done(p, "delete") /\ OutcomeOf(p, "read") = "ok"
            /\ req[p].id \notin IdSet(local[p].read))
         => /\ resp[p].code = NotFound
            /\ OutcomeOf(p, "write") = "none"
            /\ store = local[p].read
      /\ (pc[p] = "write" /\ req[p].op = "delete") => req[p].id \in IdSet(local[p].read)

C4_Witness ==
    \E p \in Procs :
      /\ Done(p, "delete") /\ resp[p].code = NotFound
      /\ store # << >> /\ store = local[p].read
      /\ req[p].id \notin IdSet(store)

\* C5: when a Delete(id) returned its confirmation and the next request served is
\* a List that succeeds, the list returned has no task with that id.
PrevWasDeleteOK ==
    /\ Len(recent) = 2
    /\ recent[1].op = "delete"
    /\ recent[1].code = OK

C5_DeleteThenList ==
    \A p \in Procs :
      (Done(p, "list") /\ resp[p].code = OK /\ PrevWasDeleteOK)
        => recent[1].id \notin IdSet(resp[p].body)

C5_Witness ==
    \E p \in Procs :
      /\ Done(p, "list") /\ resp[p].code = OK /\ PrevWasDeleteOK
      /\ resp[p].body # << >>

\* C6: a Create whose AI call failed (an exception of the call, or a reply that
\* is unsuccessful or lacks the response field) while its storage read and write
\* succeeded returns 200 with a Task that has exactly the request's title, and
\* that Task is the one stored; a Create with a failed AI call answers with an
\* error only when one of its storage calls failed.
AIFailed(p) == OutcomeOf(p, "ai") \in {"raised", "unsuccessful"}

C6_AIFailureHarmless ==
    \A p \in Procs :
      /\ (Done(p, "create") /\ AIFailed(p)
            /\ OutcomeOf(p, "read") = "ok" /\ OutcomeOf(p, "write") = "ok")
         => /\ resp[p].code = OK
            /\ Len(resp[p].body) = 1
            /\ resp[p].body[1].title = req[p].title
            /\ resp[p].body[1].status = req[p].status
            /\ store # << >> /\ store[Len(store)] = resp[p].body[1]
      /\ (Done(p, "create") /\ AIFailed(p) /\ resp[p].code # OK)
         => \/ OutcomeOf(p, "read") \in {"transport", "badjson"}
            \/ OutcomeOf(p, "write") = "transport"
      /\ (req[p].op = "create" /\ AIFailed(p) /\ Len(calls[p]) = 1) => pc[p] = "read"

C6_Witness ==
    \E p \in Procs :
      /\ Done(p, "create") /\ OutcomeOf(p, "ai") = "unsuccessful"
      /\ resp[p].code = OK
      /\ resp[p].body[1].title = req[p].title
      /\ Len(store) >= 2

\* C7: the write of a successful Update(id, body), served with no other request
\* in between, turns the stored list into the same list with the first task that
\* has the id replaced by Task{id, body.title, body.status}: same length, every
\* other position unchanged; the Task returned is the stored replacement.
UpdateReturns(p) ==
    /\ pc[p] = "write" /\ req[p].op = "update"
    /\ pc'[p] = "done" /\ resp'[p].code = OK

C7_UpdateInPlace ==
    [][\A p \in Procs :
         UpdateReturns(p) =>
           \E i \in 1..Len(store) :
             /\ store[i].id = req[p].id
             /\ \A j \in 1..(i - 1) : store[j].id # req[p].id
             /\ Len(store') = Len(store)
             /\ store'[i] = [id |-> req[p].id, title |-> req[p].title,
                             status |-> req[p].status]
             /\ \A j \in 1..Len(store) : j # i => store'[j] = store[j]
             /\ resp'[p].body = <<store'[i]>>]_vars

\* an Update has returned 200 on a list that holds its id twice, and changed a task
C7_Witness ==
    \E p \in Procs :
      /\ Done(p, "update") /\ resp[p].code = OK
      /\ store # local[p].read
      /\ \E i, j \in 1..Len(store) : i < j /\ store[i].id = req[p].id /\ store[j].id = req[p].id

\* C8: the response code of a completed request follows its failure: 503 after a
\* transport failure of the storage read or write, 500 after an unparseable
\* storage reply, 404 when the list read lacks the path id (Update, Delete);
\* 200 when the storage calls succeeded and the id, if any, was in the list read.
C8_ErrorCodes ==
    \A p \in Procs :
      pc[p] = "done" =>
        LET rd == OutcomeOf(p, "read")
            wr == OutcomeOf(p, "write")
            byId == req[p].op \in {"update", "delete"}
        IN  /\ rd = "transport" => resp[p].code = 503
            /\ rd = "badjson"   => resp[p].code = 500
            /\ wr = "transport" => resp[p].code = 503
            /\ (rd = "ok" /\ byId /\ req[p].id \notin IdSet(local[p].read))
                 => resp[p].code = 404
            /\ (rd = "ok" /\ wr # "transport"
                  /\ (byId => req[p].id \in IdSet(local[p].read)))
                 => resp[p].code = 200

C8_Witness ==
    \E p \in Procs :
      /\ Done(p, "delete") /\ OutcomeOf(p, "write") = "transport"
      /\ resp[p].code = 503
      /\ \E k \in 1..Len(recent) : recent[k].code = 500

\* C9 as stated: every successful Create returns an id greater than the id
\* returned by every earlier successful Create.
C9_CreatedIdsIncrease ==
    \A j, k \in 1..Len(created) : j < k => created[j] < created[k]

\* C9 as amended: a successful Create returns an id greater than every id of the
\* list it read, hence greater than the id returned by every earlier successful
\* Create whose task is still stored; the id of a deleted task can be assigned
\* again.
C9_NewIdAboveStored ==
    \A p \in Procs :
      (Done(p, "create") /\ resp[p].code = OK) =>
        /\ created[Len(created)] = resp[p].body[1].id
        /\ \A x \in IdSet(local[p].read) : resp[p].body[1].id > x
        /\ \A j \in 1..(Len(created) - 1) :
             created[j] \in IdSet(local[p].read) => created[j] < resp[p].body[1].id

\* a Create returns 3 after Creates returned 1 and 2 and task 1 was deleted
C9_Witness ==
    \E p \in Procs :
      /\ Done(p, "create") /\ resp[p].code = OK
      /\ created = <<1, 2, 3>>
      /\ Len(recent) = 2 /\ recent[1].op = "delete" /\ recent[1].code = OK

\* C10: two concurrent Creates that both returned 200 after reading the same list
\* L leave (while no third request has been received) a stored list of length
\* Len(L) + 1 whose last task is the one either of them returned: the other
\* created task is not stored.
CreatedOK(p) == Done(p, "create") /\ resp[p].code = OK

C10_LostUpdate ==
    \A p, q \in Procs :
      (p # q /\ CreatedOK(p) /\ CreatedOK(q) /\ received = 2
         /\ local[p].read = local[q].read)
        => /\ Len(store) = Len(local[p].read) + 1
           /\ store[Len(store)] \in {resp[p].body[1], resp[q].body[1]}
           /\ resp[p].body[1].id = resp[q].body[1].id

\* both Creates returned a Task and the stored list holds only one of the two
C10_Witness ==
    \E p, q \in Procs :
      /\ p # q /\ CreatedOK(p) /\ CreatedOK(q)
      /\ received = 2
      /\ Len(store) = 1
      /\ resp[p].body[1] \notin Range(store)
      /\ resp[q].body[1] \in Range(store)

\* C11 as stated: a Create answers 503 when the transport of a storage call
\* failed, and also when its AI call failed on the transport (the AI service is
\* unavailable) and the storage reply was readable.
C11_AIUnavailable503 ==
    \A p \in Procs :
      Done(p, "create") =>
        /\ (OutcomeOf(p, "read") = "transport" \/ OutcomeOf(p, "write") = "transport")
             => resp[p].code = 503
        /\ (OutcomeOf(p, "ai") = "raised" /\ OutcomeOf(p, "read") # "badjson")
             => resp[p].code = 503

\* C11 as amended: a Create answers 503 exactly when the transport of its storage
\* read or write failed; with the AI service unavailable and the storage calls
\* succeeding it answers 200 with the request's title unenriched.
C11_Only503FromStorage ==
    \A p \in Procs :
      Done(p, "create") =>
        /\ resp[p].code = 503
             <=> (OutcomeOf(p, "read") = "transport" \/ OutcomeOf(p, "write") = "transport")
        /\ (OutcomeOf(p, "ai") = "raised" /\ OutcomeOf(p, "read") = "ok"
              /\ OutcomeOf(p, "write") = "ok")
             => (resp[p].code = 200 /\ resp[p].body[1].title = req[p].title)

C11_Witness ==
    \E p \in Procs :
      /\ Done(p, "create") /\ OutcomeOf(p, "ai") = "raised"
      /\ resp[p].code = 200
      /\ store # << >> /\ store[Len(store)] = resp[p].body[1]

\* C12: the write of a successful Create, served with no other request in
\* between, turns the stored list L into L followed by one new Task: every task
\* of L stays in place; the new Task has id 1 when L is empty and otherwise the
\* greatest id of L plus one, the request's status, and a title that starts with
\* the request's title; the Task returned is the appended one.
CreateReturns(p) ==
    /\ pc[p] = "write" /\ req[p].op = "create"
    /\ pc'[p] = "done" /\ resp'[p].code = OK

C12_CreateAppends ==
    [][\A p \in Procs :
         CreateReturns(p) =>
           LET new == store'[Len(store')] IN
           /\ Len(store') = Len(store) + 1
           /\ \A i \in 1..Len(store) : store'[i] = store[i]
           /\ store = << >> => new.id = 1
           /\ store # << >> =>
                /\ \E i \in 1..Len(store) : new.id = store[i].id + 1
                /\ \A i \in 1..Len(store) : new.id > store[i].id
           /\ new.status = req[p].status
           /\ Len(new.title) >= Len(req[p].title)
           /\ SubSeq(new.title, 1, Len(req[p].title)) = req[p].title
           /\ resp'[p].body = <<new>>]_vars

\* a Create has appended a "done" task with id 3 to a list whose first id is the greatest
C12_Witness ==
    \E p \in Procs :
      /\ Done(p, "create") /\ resp[p].code = OK
      /\ Len(store) = 3 /\ store[1].id = 2 /\ store[2].id = 1
      /\ store[3] = resp[p].body[1] /\ store[3].id = 3 /\ store[3].status = "done"

\* C13: the write of a successful Delete(id), served with no other request in
\* between, turns the stored list L into L without its first task that has the
\* id: one task fewer, the others in their order and unchanged.
DeleteReturns(p) ==
    /\ pc[p] = "write" /\ req[p].op = "delete"
    /\ pc'[p] = "done" /\ resp'[p].code = OK

C13_DeleteRemovesFirst ==
    [][\A p \in Procs :
         DeleteReturns(p) =>
           \E i \in 1..Len(store) :
             /\ store[i].id = req[p].id
             /\ \A j \in 1..(i - 1) : store[j].id # req[p].id
             /\ Len(store') = Len(store) - 1
             /\ \A j \in 1..(i - 1) : store'[j] = store[j]
             /\ \A j \in i..(Len(store) - 1) : store'[j] = store[j + 1]
             /\ resp'[p].body = << >>]_vars

\* a Delete has removed the first of two different tasks that had its id
C13_Witness ==
    \E p \in Procs :
      /\ Done(p, "delete") /\ resp[p].code = OK
      /\ Len(local[p].read) = 2 /\ local[p].read[1] # local[p].read[2]
      /\ local[p].read[1].id = req[p].id /\ local[p].read[2].id = req[p].id
      /\ store = <<local[p].read[2]>>

\* C14: a request that ends in an error response has not changed the stored list:
\* the step that completes a request with 404, 500 or 503 leaves the list alone,
\* the list changes only in the write step of a request that then answers 200, a
\* write is issued only after a read that succeeded, and a request that read the
\* list and ended in an error leaves the list as it read it.
EndsInError(p) ==
    /\ pc[p] # "done" /\ pc'[p] = "done"
    /\ resp'[p].code \in {404, 500, 503}

WritesNow(p) ==
    /\ Len(calls'[p]) = Len(calls[p]) + 1
    /\ calls'[p][Len(calls'[p])].call = "write"

C14_ErrorLeavesStore ==
    /\ [](\A p \in Procs :
            (pc[p] = "done" /\ resp[p].code # 200 /\ OutcomeOf(p, "read") = "ok")
              => store = local[p].read)
    /\ [][/\ \A p \in Procs : EndsInError(p) => store' = store
          /\ \A p \in Procs : WritesNow(p) => OutcomeOf(p, "read") = "ok"
          /\ store' # store =>
               \E p \in Procs : pc[p] = "write" /\ pc'[p] = "done" /\ resp'[p].code = 200]_vars

\* a Create with an enriched title answered 503 on its write; the list is as it was read
C14_Witness ==
    \E p \in Procs :
      /\ Done(p, "create") /\ resp[p].code = 503
      /\ OutcomeOf(p, "write") = "transport"
      /\ local[p].title # req[p].title
      /\ store # << >> /\ store = local[p].read

\* C15: the calls of one request: List makes one read and no write; Create makes
\* its AI call, then one read, then at most one write; Update and Delete make one
\* read, then at most one write; a storage call is followed by another call only
\* if it succeeded, and a failed storage call ends the request.
Kinds(p) == [i \in 1..Len(calls[p]) |-> calls[p][i].call]

C15_CallProtocol ==
    \A p \in Procs :
      /\ req[p].op = "list" => Kinds(p) \in {<< >>, <<"read">>}
      /\ req[p].op = "create"
           => Kinds(p) \in {<< >>, <<"ai">>, <<"ai", "read">>, <<"ai", "read", "write">>}
      /\ req[p].op \in {"update", "delete"}
           => Kinds(p) \in {<< >>, <<"read">>, <<"read", "write">>}
      /\ pc[p] = "done" => \E i \in 1..Len(calls[p]) : calls[p][i].call = "read"
      /\ \A i \in 1..Len(calls[p]) :
           (calls[p][i].call \in {"read", "write"} /\ calls[p][i].out # "ok")
             => (i = Len(calls[p]) /\ pc[p] = "done")
      /\ pc[p] = "read"  => Len(calls[p]) = (IF req[p].op = "create" THEN 1 ELSE 0)
      /\ pc[p] = "write" => calls[p][Len(calls[p])] = [call |-> "read", out |-> "ok"]

\* a Create whose AI call raised went on to read and ended on a failed write
C15_Witness ==
    \E p \in Procs :
      /\ Done(p, "create")
      /\ calls[p] = <<[call |-> "ai", out |-> "raised"], [call |-> "read", out |-> "ok"],
                      [call |-> "write", out |-> "transport"]>>

\* C16: from a record with pairwise distinct ids, with the reads and writes of
\* concurrent requests interleaved in any way, the ids of the stored list are
\* pairwise distinct in every state, and so are the ids of every list a request
\* has read or is about to write.
Distinct(tasks) == \A i, j \in 1..Len(tasks) : i # j => tasks[i].id # tasks[j].id

C16_StoredIdsDistinctConcurrently ==
    /\ Distinct(store)
    /\ \A p \in Procs : Distinct(local[p].read) /\ Distinct(local[p].tasks)

\* two concurrent Creates were both answered 200 with the same id; the stored
\* list, which started non-empty, holds that id once
C16_Witness ==
    \E p, q \in Procs :
      /\ p # q /\ CreatedOK(p) /\ CreatedOK(q)
      /\ resp[p].body[1].id = resp[q].body[1].id
      /\ resp[p].body[1] # resp[q].body[1]
      /\ Len(store) = 3 /\ Distinct(store)
      /\ store[3] = resp[q].body[1]

====
